---- MODULE Spec2Model ----
(***************************************************************************)
(* Model of src/app.py: the solara page that classifies the townships of   *)
(* Changhua county into a 3x3 bivariate scheme (elderly population x       *)
(* doctor rate) and lets the user add "medical cars" to a selected         *)
(* township.                                                               *)
(*                                                                         *)
(* Numbers are exact rationals [num, den] (den > 0); NaN is den = 0.       *)
(* Township names are the integers 1..NumTowns, in the order pandas sorts  *)
(* the names (groupby sorts its keys, merge keeps the left order).         *)
(*                                                                         *)
(* A handler writes a reactive value and returns; the run of Page() that   *)
(* the write asks for is the step Render.  Until it is taken the buttons   *)
(* and the map still carry the handlers, with their captured `town`,       *)
(* `current` and `result_gdf`, of the previous render.                     *)
(*                                                                         *)
(* Spec is the page; SpecLP is load_and_process applied to every table     *)
(* drawn from RowList and Sources.                                         *)
(***************************************************************************)
EXTENDS Integers, Sequences, FiniteSets, TLC

\* ---------------------------------------------------------------- bounds
NumTowns == 4
MaxCars == 2

Towns == 1..NumTowns

\* selected_town = solara.reactive(None)
None == 0

\* the per-10000 scale of the doctor rate (row['pop_total'] / 10000)
PER == 10000

\* number of quantile groups passed to pd.qcut
Q == 3

\* ------------------------------------------------------- COLOR_MATRIX
COLOR_MATRIX ==
    ("11" :> "#e8e8e8") @@ ("21" :> "#e4acac") @@ ("31" :> "#c85a5a") @@
    ("12" :> "#b0d5df") @@ ("22" :> "#ad9ea5") @@ ("32" :> "#985356") @@
    ("13" :> "#64acbe") @@ ("23" :> "#627f8c") @@ ("33" :> "#574249")

\* labels=['1', '2', '3']
labels == <<"1", "2", "3">>

\* ------------------------------------------------------------- numbers
Frac(n, d) == [num |-> n, den |-> d]
Num(x) == Frac(x, 1)
NaN == Frac(0, 0)
IsNaN(a) == a.den = 0
Lt(a, b) == ~IsNaN(a) /\ ~IsNaN(b) /\ a.num * b.den < b.num * a.den
Eq(a, b) == ~IsNaN(a) /\ ~IsNaN(b) /\ a.num * b.den = b.num * a.den
Add(a, b) == Frac(a.num * b.den + b.num * a.den, a.den * b.den)
Div(a, b) == Frac(a.num * b.den, a.den * b.num)

\* -------------------------------------------------------------- dicts
EmptyDict == <<>>
\* dict.get(key, default)
Get(d, key, default) == IF key \in DOMAIN d THEN d[key] ELSE default
\* new = d.copy(); new[key] = value
SetItem(d, key, value) ==
    [k \in (DOMAIN d) \cup {key} |-> IF k = key THEN value ELSE d[k]]

\* the number of cars a dictionary holds
Total(d) ==
    LET RECURSIVE Sum(_)
        Sum(T) == IF T = {} THEN 0
                  ELSE LET x == CHOOSE x \in T : TRUE
                       IN  d[x] + Sum(T \ {x})
    IN  Sum(DOMAIN d)

\* a table column or list with its values computed once
Series(f) == SubSeq(f, 1, Len(f))

\* change() without the floor: current + delta
max_nofloor(a, b) == b

max(a, b) == IF a >= b THEN a ELSE b

\* ------------------------------------------------------- the tables
\* the keys of a table in sorted order (groupby(...).reset_index())
SortedKeys(S) ==
    Series([i \in 1..Cardinality(S) |->
              CHOOSE t \in S : Cardinality({u \in S : u < t}) = i - 1])

\* pd.merge(pop_stats, df_doc, left_on='area_name', right_on='town_name',
\*          how='inner'): the rows of pop_stats, in order, that df_doc has
merge(pop, doc) ==
    LET keys == SortedKeys((DOMAIN pop) \cap (DOMAIN doc))
    IN  Series([i \in DOMAIN keys |->
            [area_name        |-> keys[i],
             pop_total        |-> pop[keys[i]].pop_total,
             pop_65plus       |-> pop[keys[i]].pop_65plus,
             town_name        |-> keys[i],
             base_doctor_rate |-> doc[keys[i]]]])

\* calculate_new_rate dividing by pop_total instead of pop_total / 10000
calculate_new_rate_per_person(cars_dict, row) ==
    LET added == Get(cars_dict, row.area_name, 0)
        bonus == IF row.pop_total > 0
                 THEN Div(Num(added), Num(row.pop_total))
                 ELSE Num(0)
    IN  Add(Num(row.base_doctor_rate), bonus)

\* calculate_new_rate taking the bonus off the base rate
calculate_new_rate_minus(cars_dict, row) ==
    LET added == Get(cars_dict, row.area_name, 0)
        bonus == IF row.pop_total > 0
                 THEN Div(Num(0 - added), Div(Num(row.pop_total), Num(PER)))
                 ELSE Num(0)
    IN  Add(Num(row.base_doctor_rate), bonus)

\* calculate_new_rate(row)
calculate_new_rate(cars_dict, row) ==
    LET added == Get(cars_dict, row.area_name, 0)
        bonus == IF row.pop_total > 0
                 THEN Div(Num(added), Div(Num(row.pop_total), Num(PER)))
                 ELSE Num(0)
    IN  Add(Num(row.base_doctor_rate), bonus)

\* series.rank(method='min'): ties share the lowest rank
rank_min(series) ==
    Series([i \in DOMAIN series |->
        1 + Cardinality({j \in DOMAIN series : Lt(series[j], series[i])})])

\* series.rank(method='first'): ties get their ranks in row order
rank_first(series) ==
    Series([i \in DOMAIN series |->
        1 + Cardinality({j \in DOMAIN series : Lt(series[j], series[i])})
          + Cardinality({j \in DOMAIN series :
                            j < i /\ Eq(series[j], series[i])})])

\* Series.quantile(k / Q), linear interpolation, of a series of integers
quantile(xs, k) ==
    LET n == Len(xs)
        sorted == Series([i \in 1..n |->
                     CHOOSE v \in {xs[j] : j \in 1..n} :
                        /\ Cardinality({j \in 1..n : xs[j] < v}) < i
                        /\ Cardinality({j \in 1..n : xs[j] <= v}) >= i])
        h   == (n - 1) * k
        lo  == h \div Q
        rem == h % Q
    IN  IF n = 0 THEN NaN
        ELSE IF rem = 0 THEN Frac(Q * sorted[lo + 1], Q)
        ELSE Frac(Q * sorted[lo + 1]
                    + rem * (sorted[lo + 2] - sorted[lo + 1]), Q)

\* the number of distinct bin edges (algos.unique(bins))
NumUnique(bins) ==
    Cardinality({i \in DOMAIN bins :
                    \A j \in DOMAIN bins :
                        j < i => ~(\/ Eq(bins[j], bins[i])
                                   \/ (IsNaN(bins[j]) /\ IsNaN(bins[i])))})

\* pd.qcut(x, 3, labels=[...]): edges at the quantiles 0, 1/3, 2/3, 1;
\* duplicate edges raise; intervals are right-closed and the first one
\* includes its left edge
qcut(xs) ==
    LET bins == Series([k \in 1..(Q + 1) |-> quantile(xs, k - 1)])
        id(x) == IF Eq(Num(x), bins[1]) THEN 1
                 ELSE Cardinality({k \in DOMAIN bins : Lt(bins[k], Num(x))})
    IN  IF NumUnique(bins) < Len(bins)
        THEN [ok |-> FALSE, msg |-> "Bin edges must be unique"]
        ELSE [ok |-> TRUE,
              bin |-> Series([i \in DOMAIN xs |-> labels[id(xs[i])]])]

\* get_bins(series)
get_bins(series) == qcut(rank_first(series))

\* ------------------------------------------------------------- state
VARIABLES
    gdf,            \* gpd.read_file(TOWNSHIPS_URL): the townname column
    pop_stats,      \* area_name -> [pop_total, pop_65plus]
    df_doc,         \* town_name -> base_doctor_rate
    fetch_ok,       \* whether the remote reads currently succeed
    extra_cars,     \* extra_cars.value
    selected_town,  \* selected_town.value
    memo,           \* the use_memo slot: <<>> or <<[dependencies, value]>>
    result_gdf,     \* the value the last render got from use_memo
    main,           \* what the main column shows
    message,        \* the text of the solara.Error / solara.Warning shown
    town,           \* `town` captured by the last render's change()
    current,        \* `current` captured by the last render's change()
    panel,          \* what the side panel shows
    stale           \* a reactive value changed since the last render

env  == <<gdf, pop_stats, df_doc>>
view == <<memo, result_gdf, main, message, town, current, panel>>
vars == <<gdf, pop_stats, df_doc, fetch_ok, extra_cars, selected_town,
          memo, result_gdf, main, message, town, current, panel, stale>>

\* str(e) without the prefix
ErrorStr_bare(e) == [is_str |-> TRUE, text |-> e, rows |-> <<>>]

\* f"Error: {str(e)}"
ErrorStr(e) == [is_str |-> TRUE, text |-> "Error: " \o e, rows |-> <<>>]
GeoFrame(rows) == [is_str |-> FALSE, text |-> "", rows |-> rows]

\* gdf.merge(df_merged, left_on='townname', right_on='area_name',
\*           how='inner'): the rows of gdf, in order, that df_merged has
gdf_merge(g, df) ==
    LET hit == {i \in DOMAIN g : \E j \in DOMAIN df : df[j].area_name = g[i]}
        pos == SortedKeys(hit)
    IN  [k \in DOMAIN pos |->
            LET j == CHOOSE j \in DOMAIN df : df[j].area_name = g[pos[k]]
            IN  [townname            |-> g[pos[k]],
                 area_name           |-> df[j].area_name,
                 pop_total           |-> df[j].pop_total,
                 pop_65plus          |-> df[j].pop_65plus,
                 base_doctor_rate    |-> df[j].base_doctor_rate,
                 current_doctor_rate |-> df[j].current_doctor_rate,
                 v1_bin              |-> df[j].v1_bin,
                 v2_bin              |-> df[j].v2_bin,
                 bi_class            |-> df[j].bi_class]]

\* df_merged with current_doctor_rate, before the binning
with_rate(cars_dict) ==
    LET df == merge(pop_stats, df_doc)
    IN  Series([i \in DOMAIN df |->
            [area_name           |-> df[i].area_name,
             pop_total           |-> df[i].pop_total,
             pop_65plus          |-> df[i].pop_65plus,
             base_doctor_rate    |-> df[i].base_doctor_rate,
             current_doctor_rate |-> calculate_new_rate(cars_dict, df[i])]])

\* v2_bin + v1_bin
bi_class_swapped(v1, v2) == v2 \o v1

\* v1_bin + v2_bin
bi_class_of(v1, v2) == v1 \o v2

\* the try body of load_and_process once the three files are read
process(cars_dict) ==
    LET df == with_rate(cars_dict)
        v1 == get_bins(Series([i \in DOMAIN df |-> Num(df[i].pop_65plus)]))
        v2 == get_bins(Series([i \in DOMAIN df |-> df[i].current_doctor_rate]))
    IN  \* DataFrame.apply(axis=1) of an empty frame gives back a frame,
        \* which cannot be assigned to the one column
        IF Len(df) = 0
        THEN ErrorStr("Cannot set a DataFrame with multiple columns to the single column current_doctor_rate")
        ELSE IF ~v1.ok THEN ErrorStr(v1.msg)
        ELSE IF ~v2.ok THEN ErrorStr(v2.msg)
        ELSE GeoFrame(gdf_merge(gdf,
                [i \in DOMAIN df |->
                    [area_name           |-> df[i].area_name,
                     pop_total           |-> df[i].pop_total,
                     pop_65plus          |-> df[i].pop_65plus,
                     base_doctor_rate    |-> df[i].base_doctor_rate,
                     current_doctor_rate |-> df[i].current_doctor_rate,
                     v1_bin              |-> v1.bin[i],
                     v2_bin              |-> v2.bin[i],
                     bi_class |-> bi_class_of(v1.bin[i], v2.bin[i])]]))

\* load_and_process(cars_dict): the reads, the try body, the blanket except
load_and_process(cars_dict) ==
    IF ~fetch_ok THEN ErrorStr("HTTP Error 404: Not Found")
    ELSE process(cars_dict)

\* ------------------------------------------------------ initial data
\* the per-township figures the tables are drawn from
RowList ==
    << [pop_total |-> 0,       pop_65plus |-> 0, base_doctor_rate |-> 1],
       [pop_total |-> PER,     pop_65plus |-> 1, base_doctor_rate |-> 0],
       [pop_total |-> 2 * PER, pop_65plus |-> 2, base_doctor_rate |-> 1] >>

TownRows == {RowList[i] : i \in DOMAIN RowList}

Ascending(S) == SortedKeys(S)
Descending(S) ==
    [i \in 1..Cardinality(S) |-> SortedKeys(S)[Cardinality(S) + 1 - i]]

\* which names each of the three datasets holds
Sources ==
    { [areas |-> Towns,        towns |-> Towns,        geo |-> Ascending(Towns)],
      [areas |-> Towns,        towns |-> Towns \ {1},  geo |-> Ascending(Towns \ {NumTowns})],
      [areas |-> {1},          towns |-> Towns \ {1},  geo |-> Ascending(Towns)],
      [areas |-> Towns \ {1},  towns |-> Towns \ {1},  geo |-> <<1>>],
      [areas |-> {1, 2},       towns |-> Towns \ {1},  geo |-> Ascending(Towns)],
      [areas |-> {1, 2},       towns |-> {1, 2},       geo |-> Descending(Towns)] }

\* the datasets of the page specification
PageSources ==
    { [areas |-> Towns,        towns |-> Towns,        geo |-> Descending(Towns \ {1})],
      [areas |-> {1},          towns |-> Towns \ {1},  geo |-> Ascending(Towns)],
      [areas |-> Towns \ {1},  towns |-> Towns \ {1},  geo |-> <<1>>],
      [areas |-> {1, 2},       towns |-> Towns \ {1},  geo |-> Ascending(Towns)],
      [areas |-> {1, 2},       towns |-> {1, 2},       geo |-> Descending(Towns)] }

Tables(src, row) ==
    /\ gdf = src.geo
    /\ pop_stats = [t \in src.areas |->
                      [pop_total  |-> row[t].pop_total,
                       pop_65plus |-> row[t].pop_65plus]]
    /\ df_doc = [t \in src.towns |-> row[t].base_doctor_rate]

\* the page before its first render
Unmounted ==
    /\ extra_cars = EmptyDict
    /\ selected_town = None
    /\ memo = <<>>
    /\ result_gdf = GeoFrame(<<>>)
    /\ main = "unmounted"
    /\ message = ""
    /\ town = None
    /\ current = 0
    /\ panel = "unmounted"
    /\ stale = TRUE

\* ------------------------------------------------------------ the page
\* use_memo with dependencies=[]: computed once, never again
use_memo_once(slot, dependencies) ==
    IF slot = <<>>
    THEN [dependencies |-> dependencies,
          value |-> load_and_process(dependencies[1])]
    ELSE slot[1]

\* solara.use_memo(lambda: load_and_process(extra_cars.value),
\*                 dependencies=[extra_cars.value])
use_memo(slot, dependencies) ==
    IF slot = <<>> \/ slot[1].dependencies # dependencies
    THEN [dependencies |-> dependencies,
          value |-> load_and_process(dependencies[1])]
    ELSE slot[1]

\* one run of Page(): a render of the component
Render ==
    /\ stale
    /\ LET m == use_memo(memo, <<extra_cars>>)
       IN  /\ memo' = <<m>>
           /\ result_gdf' = m.value
           /\ IF m.value.is_str
              THEN main' = "error" /\ message' = m.value.text
              ELSE IF m.value.rows = <<>>
              THEN main' = "warning" /\ message' = "no matching data"
              ELSE main' = "map" /\ message' = ""
    /\ IF selected_town # None
       THEN /\ town' = selected_town
            /\ current' = Get(extra_cars, selected_town, 0)
            /\ panel' = "controls"
       ELSE /\ town' = None
            /\ current' = 0
            /\ panel' = "prompt"
    /\ stale' = FALSE
    /\ UNCHANGED <<env, fetch_ok, extra_cars, selected_town>>

\* change(delta), with `town` and `current` of the render that made it
change(delta) ==
    LET new == SetItem(extra_cars, town, max(0, current + delta))
    IN  /\ extra_cars' = new
        /\ stale' = (stale \/ new # extra_cars)
        /\ UNCHANGED <<env, fetch_ok, selected_town, view>>

\* the button "increase"
Increase ==
    /\ panel = "controls"
    /\ Total(SetItem(extra_cars, town, current + 1)) <= MaxCars
    /\ change(1)

\* the button "decrease"
Decrease ==
    /\ panel = "controls"
    /\ change(-1)

\* the button "reset selection": selected_town.set(None)
ResetSelection ==
    /\ panel = "controls"
    /\ selected_town' = None
    /\ stale' = (stale \/ selected_town # None)
    /\ UNCHANGED <<env, fetch_ok, extra_cars, view>>

\* handle_click(data); data is <<>> (no payload) or <<location>>
handle_click(data) ==
    /\ main = "map"
    /\ IF data # <<>>
       THEN LET idx == data[1]
            IN  selected_town' = result_gdf.rows[idx + 1].townname
       ELSE selected_town' = selected_town
    /\ stale' = (stale \/ selected_town' # selected_town)
    /\ UNCHANGED <<env, fetch_ok, extra_cars, view>>

MapClick ==
    \E data \in {<<>>} \cup {<<i>> : i \in 0..(Len(result_gdf.rows) - 1)} :
        handle_click(data)

\* the remote files become unreachable, or reachable again
NetworkChange ==
    /\ fetch_ok' = ~fetch_ok
    /\ UNCHANGED <<env, extra_cars, selected_town, view, stale>>

\* the figures of the page specification: the rows of RowList in turn
PageRows(shift) ==
    [t \in Towns |-> RowList[((t + shift) % Len(RowList)) + 1]]

Init ==
    /\ \E src \in PageSources : \E shift \in {0, 1} : Tables(src, PageRows(shift))
    /\ fetch_ok \in BOOLEAN
    /\ Unmounted

Next ==
    \/ Render
    \/ Increase
    \/ Decrease
    \/ ResetSelection
    \/ MapClick
    \/ NetworkChange

Spec == Init /\ [][Next]_vars

\* ------------------------------- load_and_process on its own inputs
InitLP ==
    /\ \E src \in Sources : \E row \in [Towns -> TownRows] : Tables(src, row)
    /\ fetch_ok = TRUE
    /\ Unmounted

\* the first call, with the empty dictionary
Load ==
    /\ stale
    /\ result_gdf' = load_and_process(extra_cars)
    /\ stale' = FALSE
    /\ UNCHANGED <<env, fetch_ok, extra_cars, selected_town, memo, main,
                   message, town, current, panel>>

\* a call with one more car in township t
AddCar(t) ==
    /\ ~stale
    /\ Total(extra_cars) < MaxCars
    /\ extra_cars' = SetItem(extra_cars, t, Get(extra_cars, t, 0) + 1)
    /\ result_gdf' = load_and_process(extra_cars')
    /\ UNCHANGED <<env, fetch_ok, selected_town, memo, main, message, town,
                   current, panel, stale>>

NextLP == Load \/ \E t \in Towns : AddCar(t)

SpecLP == InitLP /\ [][NextLP]_vars

\* ------------------------------------------------------------- claims
Counter(d, t) == Get(d, t, 0)
Rendered == main # "unmounted"
Joined == with_rate(extra_cars)
Elder(df) == Series([i \in DOMAIN df |-> Num(df[i].pop_65plus)])
Rates(df) == Series([i \in DOMAIN df |-> df[i].current_doctor_rate])
IndexOf(df, name) == CHOOSE j \in DOMAIN df : df[j].area_name = name
TertileNo(s) == IF s = "1" THEN 1 ELSE IF s = "2" THEN 2
                ELSE IF s = "3" THEN 3 ELSE 0
Tertiles == {"1", "2", "3"}

\* C1: every value stored in extra_cars is an integer >= 0, and a
\* "decrease" on a township whose counter is 0 or absent leaves it at 0.
C1_CountersNonNegative ==
    /\ [](\A t \in DOMAIN extra_cars : extra_cars[t] \in Nat)
    /\ [][(Decrease /\ Counter(extra_cars, town) = 0)
            => Counter(extra_cars', town) = 0]_vars

\* a "decrease" was handled for a township that had no entry: it now has
\* the entry 0, and another township has a positive counter
C1_Witness ==
    /\ panel = "controls" /\ current = 0 /\ stale
    /\ town \in DOMAIN extra_cars /\ extra_cars[town] = 0
    /\ town \notin DOMAIN memo[1].dependencies[1]
    /\ \E u \in DOMAIN extra_cars : extra_cars[u] > 0

Before(s, i, j) == Lt(s[i], s[j]) \/ (Eq(s[i], s[j]) /\ i < j)
GroupSize(b, l) == Cardinality({i \in DOMAIN b : b[i] = l})
EqualThirds(s) ==
    LET g == get_bins(s)
    IN  /\ g.ok
        /\ DOMAIN g.bin = DOMAIN s
        /\ \A i \in DOMAIN s : g.bin[i] \in Tertiles
        /\ \A l, m \in Tertiles : GroupSize(g.bin, l) - GroupSize(g.bin, m) <= 1
        /\ \A i, j \in DOMAIN s :
              Before(s, i, j) => TertileNo(g.bin[i]) <= TertileNo(g.bin[j])

C3_TertilesEqualCount ==
    LET df == Joined
    IN  Len(df) >= 2 =>
            /\ EqualThirds(Elder(df))
            /\ EqualThirds(Rates(df))
            /\ ~stale => ~result_gdf.is_str

\* the classification was computed for a table of 4 or more rows that has
\* ties in both series
C3_Witness ==
    /\ ~stale /\ Len(Joined) >= 4 /\ Len(result_gdf.rows) >= 4
    /\ \E i, j \in DOMAIN Joined :
          i < j /\ Eq(Elder(Joined)[i], Elder(Joined)[j])
    /\ \E i, j \in DOMAIN Joined :
          i < j /\ Eq(Rates(Joined)[i], Rates(Joined)[j])
    /\ \E t \in DOMAIN extra_cars : extra_cars[t] > 0

\* C4: in every computed result each township's bi_class is its elderly
\* tertile followed by its doctor-rate tertile, two characters, and a key
\* of COLOR_MATRIX.
C4_BiClassInMatrix ==
    (memo # <<>> /\ ~memo[1].value.is_str) =>
        LET df == with_rate(memo[1].dependencies[1])
            e  == get_bins(Elder(df))
            r  == get_bins(Rates(df))
        IN  \A k \in DOMAIN memo[1].value.rows :
                LET row == memo[1].value.rows[k]
                    j   == IndexOf(df, row.townname)
                IN  /\ row.bi_class = e.bin[j] \o r.bin[j]
                    /\ e.bin[j] \in Tertiles /\ r.bin[j] \in Tertiles
                    /\ Len(row.bi_class) = 2
                    /\ row.bi_class \in DOMAIN COLOR_MATRIX

\* a map is shown, computed with cars added, in which two townships have
\* classes whose digits differ
C4_Witness ==
    /\ main = "map" /\ ~stale
    /\ \E t \in DOMAIN extra_cars : extra_cars[t] > 0
    /\ \E k \in DOMAIN result_gdf.rows :
          result_gdf.rows[k].v1_bin # result_gdf.rows[k].v2_bin

\* C5: whenever the page is rendered and up to date, the memo holds the
\* current dictionary and the result shown is the one load_and_process
\* computes from it (an error string when the reads or the binning failed).
C5_MemoFollowsCounters ==
    (Rendered /\ ~stale) =>
        /\ memo[1].dependencies = <<extra_cars>>
        /\ result_gdf = memo[1].value
        /\ ~result_gdf.is_str => result_gdf = process(extra_cars)
        /\ result_gdf.is_str =>
              result_gdf \in {process(extra_cars),
                              ErrorStr("HTTP Error 404: Not Found")}

\* the map was re-rendered after two counters were raised
C5_Witness ==
    /\ main = "map" /\ ~stale
    /\ \E t, u \in DOMAIN extra_cars :
          t # u /\ extra_cars[t] > 0 /\ extra_cars[u] > 0
    /\ result_gdf # process(EmptyDict)

\* C6: a failure of the reads or of the binning gives 'Error: <message>';
\* the page shows that string as the error and no map; the step that
\* brings the error up changes neither extra_cars nor selected_town, and
\* the panel keeps its buttons for the selected township.
ErrorTexts ==
    {"Error: " \o m : m \in
        {"HTTP Error 404: Not Found",
         "Bin edges must be unique",
         "Cannot set a DataFrame with multiple columns to the single column current_doctor_rate"}}

C6_ErrorsAreShown ==
    /\ [](/\ result_gdf.is_str => result_gdf.text \in ErrorTexts
          /\ (Rendered /\ result_gdf.is_str) =>
                (main = "error" /\ message = result_gdf.text)
          /\ (Rendered /\ Len(merge(pop_stats, df_doc)) < 2) =>
                result_gdf.is_str
          /\ (main = "error" /\ ~stale /\ selected_town # None) =>
                (panel = "controls" /\ town = selected_town))
    /\ [][(main' = "error" /\ result_gdf' # result_gdf) =>
            (extra_cars' = extra_cars /\ selected_town' = selected_town)]_vars

\* the error is shown while a township is selected, and a click on
\* "increase" was handled after the error came up
C6_Witness ==
    /\ main = "error" /\ panel = "controls" /\ selected_town # None
    /\ stale /\ memo[1].dependencies # <<extra_cars>>
    /\ Counter(extra_cars, town) = current + 1

\* C7: when the final joined table has no rows the page shows the
\* 'no matching data' warning and no error (other than a failed read).
NoMatch ==
    \A i \in DOMAIN gdf : gdf[i] \notin (DOMAIN pop_stats) \cap (DOMAIN df_doc)

C7_NoMatchWarning ==
    (Rendered /\ NoMatch) =>
        \/ main = "warning"
        \/ main = "error" /\ message = ErrorStr("HTTP Error 404: Not Found").text

\* C8: current_doctor_rate = base + c * 10000 / pop_total when
\* pop_total > 0 and = base when pop_total = 0, c being the township's
\* counter (0 when absent); counters of townships outside the joined
\* table change nothing.
Restrict(d, S) == [t \in (DOMAIN d) \cap S |-> d[t]]

C8_LinearBonus ==
    LET df == Joined
    IN  ~stale =>
        /\ \A i \in DOMAIN df :
              LET c == Counter(extra_cars, df[i].area_name)
                  b == df[i].base_doctor_rate
                  p == df[i].pop_total
                  r == df[i].current_doctor_rate
              IN  /\ r.den > 0
                  /\ IF p > 0 THEN r.num * p = (b * p + c * PER) * r.den
                              ELSE r.num = b * r.den
        /\ \A k \in DOMAIN result_gdf.rows :
              result_gdf.rows[k].current_doctor_rate
                = df[IndexOf(df, result_gdf.rows[k].townname)].current_doctor_rate
        /\ result_gdf = load_and_process(
              Restrict(extra_cars, (DOMAIN pop_stats) \cap (DOMAIN df_doc)))

\* the rates were computed for a table with a township of population 0,
\* with a car in a populated township and a car in a township outside the
\* joined table
C8_Witness ==
    /\ ~stale /\ ~result_gdf.is_str
    /\ \E i \in DOMAIN Joined : Joined[i].pop_total = 0
    /\ \E i \in DOMAIN Joined :
          Joined[i].pop_total > 0 /\ Counter(extra_cars, Joined[i].area_name) > 0
    /\ \E t \in DOMAIN extra_cars :
          extra_cars[t] > 0 /\ t \notin (DOMAIN pop_stats) \cap (DOMAIN df_doc)

C10_RerankMonotone ==
    [][(~stale /\ ~result_gdf.is_str /\ ~result_gdf'.is_str) =>
        /\ Len(result_gdf'.rows) = Len(result_gdf.rows)
        /\ \A k \in DOMAIN result_gdf.rows :
              LET old == result_gdf.rows[k]
                  new == result_gdf'.rows[k]
              IN  /\ new.townname = old.townname
                  /\ new.v1_bin = old.v1_bin
                  /\ IF Counter(extra_cars', old.townname)
                          > Counter(extra_cars, old.townname)
                     THEN TertileNo(new.v2_bin) >= TertileNo(old.v2_bin)
                     ELSE TertileNo(new.v2_bin) <= TertileNo(old.v2_bin)]_vars

\* a car was added and moved its township up a tertile and another one down
C10_Witness ==
    /\ ~stale /\ ~result_gdf.is_str
    /\ LET base == process(EmptyDict)
       IN  /\ ~base.is_str
           /\ \E k \in DOMAIN result_gdf.rows :
                 /\ Counter(extra_cars, result_gdf.rows[k].townname) > 0
                 /\ TertileNo(result_gdf.rows[k].v2_bin)
                      > TertileNo(base.rows[k].v2_bin)
           /\ \E k \in DOMAIN result_gdf.rows :
                 /\ Counter(extra_cars, result_gdf.rows[k].townname) = 0
                 /\ TertileNo(result_gdf.rows[k].v2_bin)
                      < TertileNo(base.rows[k].v2_bin)

====
